---- MODULE Spec2Model ----
(***************************************************************************)
(* Chawa Farms (src/app.py): the in-memory store of player saves, the two  *)
(* POST handlers that change it, and the day-advancement engine.           *)
(*                                                                         *)
(* water_level is a Python float (IEEE-754 binary64).  Every value the     *)
(* program computes from 0.5 by adding 0.4 (capped at 1.0) and subtracting *)
(* 0.2 (floored at 0) is a multiple of 2^-54, so a float is kept exactly   *)
(* as a signed count of 2^-54 units, split in two limbs of 30 bits, and    *)
(* every sum and difference is rounded to 53 significant bits, ties to     *)
(* even, as the hardware does.                                             *)
(***************************************************************************)
EXTENDS Integers, Sequences, FiniteSets, TLC

VARIABLES game_saves, request, response, n_success, inflight, history,
          objects

vars ==
    <<game_saves, request, response, n_success, inflight, history, objects>>

----------------------------------------------------------------------------
(* Bounds of the exploration *)

\* requests answered with success that one behaviour explores; a request
\* answered with an error is always explored
MaxSteps == 3

\* water actions explored in the full-cycle scenario
MaxScenarioWaters == 3

----------------------------------------------------------------------------
(* Python values *)

\* Python's None, which is also what a JSON null is read as; a value x
\* other than None is <<x>>
None == <<>>

\* a key the JSON body does not have
Absent == <<"absent", "key">>

Some(x) == <<x>>

IsNone(o) == o = <<>>

Val(o) == o[1]

\* truthiness of an optional string: None and "" are falsy
Truthy(o) == o # None /\ Val(o) # ""

\* data.get(key, default) for the key's entry o of the body: the default is
\* for the absent key alone, a null is returned as None
Get(o, default) == IF o = Absent THEN default ELSE o

----------------------------------------------------------------------------
(* binary64 arithmetic on the values water_level takes *)

Base == 2^30

\* the ulp, in units of 2^-54, of a magnitude whose high limb is hi:
\* the least power of two s with hi * Base < 2^53 * s
RECURSIVE UlpFrom(_, _)
UlpFrom(hi, s) == IF hi < (2^23) * s THEN s ELSE UlpFrom(hi, 2 * s)

Ulp(hi) == UlpFrom(hi, 1)

\* carry a low limb that reached Base into the high limb
Carry(hi, lo) == IF lo >= Base THEN [hi |-> hi + 1, lo |-> lo - Base]
                 ELSE [hi |-> hi, lo |-> lo]

\* a magnitude whose low limb is a multiple `down' of the ulp s plus a
\* remainder r, rounded to a multiple of s: to the nearest, ties to even
RoundRem(hi, down, r, s) ==
    Carry(hi, IF 2 * r < s THEN down
              ELSE IF 2 * r > s THEN down + s
              ELSE IF (down \div s) % 2 = 0 THEN down ELSE down + s)

RoundTo(hi, lo, s) == RoundRem(hi, lo - (lo % s), lo % s, s)

\* round a magnitude to 53 significant bits, ties to even
RoundNearestEven(hi, lo) == RoundTo(hi, lo, Ulp(hi))

RoundLimbs(m) == RoundNearestEven(m.hi, m.lo)

Dbl(neg, m) == [neg |-> neg, hi |-> m.hi, lo |-> m.lo]

MagLess(a, b) == a.hi < b.hi \/ (a.hi = b.hi /\ a.lo < b.lo)

IsZero(a) == a.hi = 0 /\ a.lo = 0

\* a < b
FLess(a, b) ==
    IF IsZero(a) /\ IsZero(b) THEN FALSE
    ELSE IF a.neg /\ ~b.neg THEN TRUE
    ELSE IF ~a.neg /\ b.neg THEN FALSE
    ELSE IF a.neg THEN MagLess(b, a)
    ELSE MagLess(a, b)

\* a > b
FGreater(a, b) == FLess(b, a)

MagAdd(a, b) == RoundLimbs(Carry(a.hi + b.hi, a.lo + b.lo))

\* a - b for magnitudes with b <= a
MagSub(a, b) ==
    IF a.lo >= b.lo THEN RoundNearestEven(a.hi - b.hi, a.lo - b.lo)
    ELSE RoundNearestEven(a.hi - b.hi - 1, a.lo + Base - b.lo)

\* a + b
FAdd(a, b) ==
    IF a.neg = b.neg THEN Dbl(a.neg, MagAdd(a, b))
    ELSE IF MagLess(a, b) THEN Dbl(b.neg, MagSub(b, a))
    ELSE IF MagLess(b, a) THEN Dbl(a.neg, MagSub(a, b))
    ELSE Dbl(FALSE, [hi |-> 0, lo |-> 0])

\* a - b
FSub(a, b) == FAdd(a, [b EXCEPT !.neg = ~b.neg])

\* Python's min(a, b): the first of the smallest
PyMin(a, b) == IF FLess(b, a) THEN b ELSE a

\* Python's max(a, b): the first of the largest
PyMax(a, b) == IF FGreater(b, a) THEN b ELSE a

\* the float literals of the source, as the parser rounds them
F_0   == [neg |-> FALSE, hi |-> 0, lo |-> 0]

F_0_2 == [neg |-> FALSE, hi |-> 3355443, lo |-> 214748365]

F_0_4 == [neg |-> FALSE, hi |-> 6710886, lo |-> 429496730]

F_0_5 == [neg |-> FALSE, hi |-> 8388608, lo |-> 0]

F_1_0 == [neg |-> FALSE, hi |-> 16777216, lo |-> 0]

----------------------------------------------------------------------------
(* Game data configuration *)

REGIONS ==
    [Morogoro |-> [specialty |-> "Rice and Maize farming.",
                   crops |-> <<"Rice", "Maize", "Sunflower">>,
                   livestock |-> <<"Cattle", "Goats">>],
     Arusha   |-> [specialty |-> "Horticulture and Coffee.",
                   crops |-> <<"Coffee", "Tomatoes", "Flowers">>,
                   livestock |-> <<"Dairy Cattle">>],
     Dodoma   |-> [specialty |-> "Grape and Sorghum cultivation.",
                   crops |-> <<"Grapes", "Sorghum", "Millet">>,
                   livestock |-> <<"Goats", "Sheep">>]]

CROP_DATA == [Maize |-> [growth_time |-> 5, yield |-> 10]]

\* the keys of the initial inventory and price list
SeedItem(crop_name) == crop_name \o " Seed"

HarvestedItem(crop_name) == "Harvested " \o crop_name

\* dict.get(key, default)
DictGet(d, k, default) == IF k \in DOMAIN d THEN d[k] ELSE default

\* d[key] = value
DictSet(d, k, v) == (k :> v) @@ d

----------------------------------------------------------------------------
(* Inputs: what the clients send and what the random generator returns *)

Names == {"Amina", "Baraka"}

\* playerName of a request body: absent, empty, or a name
NameInputs == {None, Some("")} \cup {Some(n) : n \in Names}

\* region of a login body: absent, null, a catalog key, or no catalog key
RegionInputs == {Absent, None, Some("Morogoro"), Some("Atlantis")}

\* action of a request body: the four actions, one the dispatcher does not
\* know, or absent
ActionInputs == {Some("next_day"), Some("plant"), Some("water"),
                 Some("harvest"), Some("sell"), None}

\* params.field_id: the two fields, or the id of no field
FieldIdInputs == {Some(1), Some(2), Some(3)}

\* random.randint(500, 800): the two ends of the range
PriceChoices == {500, 800}

\* get_simulated_nasa_data's readings; soil_moisture and vegetation_index
\* are rounded to two decimals and kept in hundredths
NasaChoices ==
    {[soil_moisture |-> 20, precipitation_forecast |-> "clear",
      vegetation_index |-> 30],
     [soil_moisture |-> 80, precipitation_forecast |-> "heavy_rain",
      vegetation_index |-> 90]}

\* the items that have a market price
PriceKeys == {HarvestedItem("Maize")}

PriceRolls == [PriceKeys -> PriceChoices]

----------------------------------------------------------------------------
(* Helper functions *)

NewField(id) ==
    [id |-> id, crop |-> None, status |-> "Fallow", water_level |-> F_0_5,
     growth_stage |-> 0, health |-> 100]

\* a new player's state; price is the random market price.  nasa_data is
\* absent until the login handler sets it.
initialize_game_state(player_name, region_name, price) ==
    [playerName    |-> player_name,
     region        |-> region_name,
     region_info   |-> REGIONS[region_name],
     currency      |-> "TZS",
     balance       |-> 50000,
     current_day   |-> 1,
     fields        |-> <<NewField(1), NewField(2)>>,
     \* feed_level 0.7, in hundredths; no handler reads or writes livestock
     livestock     |-> <<[type |-> "Goats", count |-> 5, health |-> 90,
                          feed_level |-> 70]>>,
     inventory     |-> [k \in {"Maize Seed", "Fertilizer", "Goat Feed",
                               "Harvested Maize"} |->
                           CASE k = "Maize Seed" -> 10
                             [] k = "Fertilizer" -> 5
                             [] k = "Goat Feed" -> 20
                             [] k = "Harvested Maize" -> 0],
     active_quests |-> <<[id |-> "main_quest_1", title |-> "Your First Farm",
                          is_complete |-> FALSE]>>,
     market_prices |-> [k \in {"Harvested Maize"} |-> price],
     nasa_data     |-> None]

\* a day that grows the crop whatever its water
Grow_IgnoresWater(field) ==
    [field EXCEPT
       !.growth_stage = @ + 1,
       !.water_level = PyMax(F_0, FSub(@, F_0_2))]

\* a day that takes the water before it looks at it
Grow_DecaysFirst(field) ==
    [field EXCEPT
       !.growth_stage =
           IF FGreater(PyMax(F_0, FSub(field.water_level, F_0_2)), F_0_4)
           THEN @ + 1 ELSE @,
       !.water_level = PyMax(F_0, FSub(@, F_0_2))]

\* a day that takes the water with no floor at 0
Grow_NoFloor(field) ==
    [field EXCEPT
       !.growth_stage = IF FGreater(field.water_level, F_0_4)
                        THEN @ + 1 ELSE @,
       !.water_level = FSub(@, F_0_2)]

\* a day that grows the crop down to a water of 0.2
Grow_LowThreshold(field) ==
    [field EXCEPT
       !.growth_stage = IF FGreater(field.water_level, F_0_2)
                        THEN @ + 1 ELSE @,
       !.water_level = PyMax(F_0, FSub(@, F_0_2))]

\* the growth and the water of a growing field after a day
Grow(field) ==
    [field EXCEPT
       !.growth_stage = IF FGreater(field.water_level, F_0_4)
                        THEN @ + 1 ELSE @,
       !.water_level = PyMax(F_0, FSub(@, F_0_2))]

\* a field that is ready one stage before the growth time
Ripen_OneStageEarly(field) ==
    IF Val(field.crop) \notin DOMAIN CROP_DATA
    THEN [field |-> field, raised |-> TRUE]
    ELSE IF field.growth_stage + 1 >= CROP_DATA[Val(field.crop)].growth_time
    THEN [field |-> [field EXCEPT !.status = "Ready to Harvest"],
          raised |-> FALSE]
    ELSE [field |-> field, raised |-> FALSE]

\* the status of a grown field; raised is the TypeError of
\* crop_info['growth_time'] on a crop the catalog does not have
Ripen(field) ==
    IF Val(field.crop) \notin DOMAIN CROP_DATA
    THEN [field |-> field, raised |-> TRUE]
    ELSE IF field.growth_stage >= CROP_DATA[Val(field.crop)].growth_time
    THEN [field |-> [field EXCEPT !.status = "Ready to Harvest"],
          raised |-> FALSE]
    ELSE [field |-> field, raised |-> FALSE]

\* a day for every field that holds a crop, whatever its status
AdvanceField_AnyStatus(field) ==
    IF Truthy(field.crop)
    THEN Ripen(Grow(field))
    ELSE [field |-> field, raised |-> FALSE]

\* a day that still adds a stage to a watered field that is ready
AdvanceField_ReadyGrows(field) ==
    IF Truthy(field.crop) /\ field.status = "Growing"
    THEN Ripen(Grow(field))
    ELSE IF Truthy(field.crop) /\ field.status = "Ready to Harvest"
            /\ FGreater(field.water_level, F_0_4)
    THEN [field |-> [field EXCEPT !.growth_stage = @ + 1], raised |-> FALSE]
    ELSE [field |-> field, raised |-> FALSE]

\* one field's day: the body of advance_day's loop over the fields
AdvanceField(field) ==
    IF Truthy(field.crop) /\ field.status = "Growing"
    THEN Ripen(Grow(field))
    ELSE [field |-> field, raised |-> FALSE]

\* the least of a set of indices, or 0 when there is none
FirstIndex(hits) ==
    IF hits = {} THEN 0 ELSE CHOOSE i \in hits : \A j \in hits : i <= j

\* the loop, given each field's day and the index of the first that raises:
\* the fields up to it are advanced, those after it are not reached
AdvanceUntil(fields, res, stop) ==
    [fields |-> [i \in 1..Len(fields) |->
                    IF stop = 0 \/ i <= stop THEN res[i].field ELSE fields[i]],
     raised |-> stop # 0]

AdvanceEach(fields, res) ==
    AdvanceUntil(fields, res,
                 FirstIndex({i \in 1..Len(fields) : res[i].raised}))

AdvanceFields(fields) ==
    AdvanceEach(fields, [i \in 1..Len(fields) |-> AdvanceField(fields[i])])

\* a day passes for one player; rolls gives the random price of each item
AdvanceWith(player_state, rolls, r) ==
    [state |-> [player_state EXCEPT
                  !.current_day = @ + 1,
                  !.market_prices = [k \in DOMAIN @ |-> rolls[k]],
                  !.fields = r.fields],
     raised |-> r.raised]

advance_day(player_state, rolls) ==
    AdvanceWith(player_state, rolls, AdvanceFields(player_state.fields))

----------------------------------------------------------------------------
(* The action dispatcher's branches.  Each takes the player's state and    *)
(* returns the state after the branch, the success flag and the message.   *)

NotRecognized == "Action not recognized."

\* field['id'] == field_id, for the field_id of the request
IdMatches(field, field_id) == field_id # None /\ field.id = Val(field_id)

Outcome(state, success, raised, message) ==
    [state |-> state, success |-> success, raised |-> raised,
     message |-> message]

NextDayResult(r) == Outcome(r.state, TRUE, r.raised, "A new day has dawned.")

NextDayBranch(player_state, rolls) ==
    NextDayResult(advance_day(player_state, rolls))

\* a plant that marks the field ready at once
PlantAt_ReadyAtOnce(player_state, field_id, crop_name, seed_name, i) ==
    IF i # 0
    THEN Outcome([player_state EXCEPT
                    !.fields[i].crop = Some(crop_name),
                    !.fields[i].status = "Ready to Harvest",
                    !.fields[i].growth_stage = 0,
                    !.inventory[seed_name] = @ - 1],
                 TRUE, FALSE,
                 "You planted " \o crop_name \o " in Field "
                 \o ToString(Val(field_id)) \o ".")
    ELSE Outcome(player_state, FALSE, FALSE, NotRecognized)

\* the body of plant's loop at the first field i that passes its test
\* (0: none does, or the seed test before the loop fails)
PlantAt(player_state, field_id, crop_name, seed_name, i) ==
    IF i # 0
    THEN Outcome([player_state EXCEPT
                    !.fields[i].crop = Some(crop_name),
                    !.fields[i].status = "Growing",
                    !.fields[i].growth_stage = 0,
                    !.inventory[seed_name] = @ - 1],
                 TRUE, FALSE,
                 "You planted " \o crop_name \o " in Field "
                 \o ToString(Val(field_id)) \o ".")
    ELSE Outcome(player_state, FALSE, FALSE, NotRecognized)

\* a plant that takes the seed before it looks for the field
PlantCrop_SeedSpentFirst(player_state, field_id, crop_name, seed_name) ==
    IF DictGet(player_state.inventory, seed_name, 0) <= 0
    THEN Outcome(player_state, FALSE, FALSE, NotRecognized)
    ELSE IF \E i \in 1..Len(player_state.fields) :
               /\ IdMatches(player_state.fields[i], field_id)
               /\ player_state.fields[i].status = "Fallow"
    THEN PlantAt(player_state, field_id, crop_name, seed_name,
             FirstIndex({i \in 1..Len(player_state.fields) :
                           /\ IdMatches(player_state.fields[i], field_id)
                           /\ player_state.fields[i].status = "Fallow"}))
    ELSE Outcome([player_state EXCEPT !.inventory[seed_name] = @ - 1],
                 FALSE, FALSE, NotRecognized)

\* a plant that does not ask for a seed
PlantCrop_NoSeedTest(player_state, field_id, crop_name, seed_name) ==
    PlantAt(player_state, field_id, crop_name, seed_name,
        FirstIndex({i \in 1..Len(player_state.fields) :
                      /\ IdMatches(player_state.fields[i], field_id)
                      /\ player_state.fields[i].status = "Fallow"}))

\* a plant whose seed test lets a stock of 0 through
PlantCrop_SeedTestOffByOne(player_state, field_id, crop_name, seed_name) ==
    PlantAt(player_state, field_id, crop_name, seed_name,
        IF DictGet(player_state.inventory, seed_name, 0) >= 0
        THEN FirstIndex({i \in 1..Len(player_state.fields) :
                           /\ IdMatches(player_state.fields[i], field_id)
                           /\ player_state.fields[i].status = "Fallow"})
        ELSE 0)

PlantCrop(player_state, field_id, crop_name, seed_name) ==
    PlantAt(player_state, field_id, crop_name, seed_name,
        IF DictGet(player_state.inventory, seed_name, 0) > 0
        THEN FirstIndex({i \in 1..Len(player_state.fields) :
                           /\ IdMatches(player_state.fields[i], field_id)
                           /\ player_state.fields[i].status = "Fallow"})
        ELSE 0)

\* a plant of the region's first crop, which the catalog does not have
PlantBranch_RegionCrop(player_state, field_id) ==
    PlantCrop(player_state, field_id, player_state.region_info.crops[1],
              SeedItem("Maize"))

PlantBranch(player_state, field_id) ==
    PlantCrop(player_state, field_id, "Maize", SeedItem("Maize"))

\* a water that asks for the 100 TZS first
WaterAt_ChecksBalance(player_state, field_id, i) ==
    IF i # 0 /\ player_state.balance >= 100
    THEN Outcome([player_state EXCEPT
                    !.fields[i].water_level = PyMin(F_1_0, FAdd(@, F_0_4)),
                    !.balance = @ - 100],
                 TRUE, FALSE,
                 "You watered Field " \o ToString(Val(field_id))
                 \o ". It cost 100 TZS.")
    ELSE Outcome(player_state, FALSE, FALSE, NotRecognized)

WaterAt(player_state, field_id, i) ==
    IF i # 0
    THEN Outcome([player_state EXCEPT
                    !.fields[i].water_level = PyMin(F_1_0, FAdd(@, F_0_4)),
                    !.balance = @ - 100],
                 TRUE, FALSE,
                 "You watered Field " \o ToString(Val(field_id))
                 \o ". It cost 100 TZS.")
    ELSE Outcome(player_state, FALSE, FALSE, NotRecognized)

\* a water for growing fields only
WaterBranch_GrowingOnly(player_state, field_id) ==
    WaterAt(player_state, field_id,
        FirstIndex({i \in 1..Len(player_state.fields) :
                      /\ IdMatches(player_state.fields[i], field_id)
                      /\ player_state.fields[i].status = "Growing"}))

WaterBranch(player_state, field_id) ==
    WaterAt(player_state, field_id,
        FirstIndex({i \in 1..Len(player_state.fields) :
                      IdMatches(player_state.fields[i], field_id)}))

\* a harvest that leaves the growth stage on the field
HarvestCrop_KeepsStage(player_state, i, crop_name, harvested_item, crop_yield) ==
    Outcome([player_state EXCEPT
               !.inventory = DictSet(@, harvested_item,
                                 DictGet(@, harvested_item, 0) + crop_yield),
               !.fields[i].crop = None,
               !.fields[i].status = "Fallow"],
            TRUE, FALSE,
            "You harvested " \o ToString(crop_yield) \o " units of "
            \o crop_name \o "!")

\* a harvest that puts the field back as a new field, water included
HarvestCrop_NewField(player_state, i, crop_name, harvested_item, crop_yield) ==
    Outcome([player_state EXCEPT
               !.inventory = DictSet(@, harvested_item,
                                 DictGet(@, harvested_item, 0) + crop_yield),
               !.fields[i] = NewField(@.id)],
            TRUE, FALSE,
            "You harvested " \o ToString(crop_yield) \o " units of "
            \o crop_name \o "!")

\* the body of harvest's loop for the crop of field i
HarvestCrop(player_state, i, crop_name, harvested_item, crop_yield) ==
    Outcome([player_state EXCEPT
               !.inventory = DictSet(@, harvested_item,
                                 DictGet(@, harvested_item, 0) + crop_yield),
               !.fields[i].crop = None,
               !.fields[i].status = "Fallow",
               !.fields[i].growth_stage = 0],
            TRUE, FALSE,
            "You harvested " \o ToString(crop_yield) \o " units of "
            \o crop_name \o "!")

\* CROP_DATA[crop_name] raises a KeyError for a crop that is None or not in
\* the catalog, before anything is changed
HarvestAt(player_state, i) ==
    IF i = 0 THEN Outcome(player_state, FALSE, FALSE, NotRecognized)
    ELSE IF player_state.fields[i].crop = None
            \/ Val(player_state.fields[i].crop) \notin DOMAIN CROP_DATA
    THEN Outcome(player_state, FALSE, TRUE, NotRecognized)
    ELSE HarvestCrop(player_state, i, Val(player_state.fields[i].crop),
                     HarvestedItem(Val(player_state.fields[i].crop)),
                     CROP_DATA[Val(player_state.fields[i].crop)].yield)

HarvestBranch(player_state, field_id) ==
    HarvestAt(player_state,
        FirstIndex({i \in 1..Len(player_state.fields) :
                      /\ IdMatches(player_state.fields[i], field_id)
                      /\ player_state.fields[i].status = "Ready to Harvest"}))

\* the if / elif chain on action_type
Dispatch(player_state, action_type, field_id, rolls) ==
    IF action_type = Some("next_day") THEN NextDayBranch(player_state, rolls)
    ELSE IF action_type = Some("plant") THEN PlantBranch(player_state, field_id)
    ELSE IF action_type = Some("water") THEN WaterBranch(player_state, field_id)
    ELSE IF action_type = Some("harvest")
    THEN HarvestBranch(player_state, field_id)
    ELSE Outcome(player_state, FALSE, FALSE, NotRecognized)

----------------------------------------------------------------------------
(* The two POST handlers: the store and the response after a request *)

Response(status, code, message) ==
    [status |-> status, code |-> code, message |-> message]

LoginRequest(player_name, region) ==
    [endpoint |-> "/api/player", playerName |-> player_name,
     region |-> region, action |-> None, field_id |-> None]

ActionRequest(player_name, action_type, field_id) ==
    [endpoint |-> "/api/perform_action", playerName |-> player_name,
     region |-> Absent, action |-> action_type, field_id |-> field_id]

\* the new player's branch of create_or_login_player; region is what
\* data.get('region', 'Morogoro') returned, None for a null
CreatePlayer(store, name, region, price, nasa) ==
    IF region = None \/ Val(region) \notin DOMAIN REGIONS
    THEN [store |-> store,
          response |-> Response("error", 400, "Invalid region selected.")]
    ELSE [store |-> DictSet(store, name,
                       [initialize_game_state(name, Val(region), price)
                           EXCEPT !.nasa_data = Some(nasa)]),
          response |-> Response("success", 200,
              "New farm created for " \o name \o " in " \o Val(region)
                  \o "!")]

\* a login that makes a new farm for a name it already has
CreateOrLogin_Resets(store, player_name, region_in, price, nasa) ==
    IF ~Truthy(player_name)
    THEN [store |-> store,
          response |-> Response("error", 400, "Player name is required.")]
    ELSE CreatePlayer(store, Val(player_name),
                      IF region_in = Absent
                      THEN IF Val(player_name) \in DOMAIN store
                           THEN Some(store[Val(player_name)].region)
                           ELSE Some("Morogoro")
                      ELSE region_in,
                      price, nasa)

\* POST /api/player; price and nasa are what the random generator returns
CreateOrLogin(store, player_name, region_in, price, nasa) ==
    IF ~Truthy(player_name)
    THEN [store |-> store,
          response |-> Response("error", 400, "Player name is required.")]
    ELSE IF Val(player_name) \in DOMAIN store
    THEN [store |-> [store EXCEPT ![Val(player_name)].nasa_data = Some(nasa)],
          response |-> Response("success", 200,
              "Welcome back, " \o Val(player_name) \o "!")]
    ELSE CreatePlayer(store, Val(player_name),
                      Get(region_in, Some("Morogoro")), price, nasa)

\* a save that writes the record under every name of the store
Respond_SavesForAll(store, name, r) ==
    IF r.raised
    THEN [store |-> [store EXCEPT ![name] = r.state],
          response |-> Response("error", 500, "Internal Server Error")]
    ELSE IF r.success
    THEN [store |-> [n \in DOMAIN store |-> r.state],
          response |-> Response("success", 200, r.message)]
    ELSE [store |-> [store EXCEPT ![name] = r.state],
          response |-> Response("error", 400, r.message)]

\* POST /api/perform_action.  player_state is the stored record itself, so
\* whatever a branch does to it is in the store whether or not the branch
\* succeeds; the save on success stores the same record again.
Respond(store, name, r) ==
    IF r.raised
    THEN [store |-> [store EXCEPT ![name] = r.state],
          response |-> Response("error", 500, "Internal Server Error")]
    ELSE IF r.success
    THEN [store |-> DictSet([store EXCEPT ![name] = r.state], name, r.state),
          response |-> Response("success", 200, r.message)]
    ELSE [store |-> [store EXCEPT ![name] = r.state],
          response |-> Response("error", 400, r.message)]

\* a dispatcher that makes a farm for a name it does not find
PerformAction_AutoCreate(store, player_name, action_type, field_id, rolls) ==
    IF ~Truthy(player_name)
    THEN [store |-> store,
          response |-> Response("error", 404, "Player not found.")]
    ELSE IF Val(player_name) \notin DOMAIN store
    THEN [store |-> DictSet(store, Val(player_name),
                       initialize_game_state(Val(player_name), "Morogoro",
                                             500)),
          response |-> Response("error", 404, "Player not found.")]
    ELSE Respond(store, Val(player_name),
                 Dispatch(store[Val(player_name)], action_type, field_id,
                          rolls))

PerformAction(store, player_name, action_type, field_id, rolls) ==
    IF ~Truthy(player_name) \/ Val(player_name) \notin DOMAIN store
    THEN [store |-> store,
          response |-> Response("error", 404, "Player not found.")]
    ELSE Respond(store, Val(player_name),
                 Dispatch(store[Val(player_name)], action_type, field_id,
                          rolls))

----------------------------------------------------------------------------
(* The state machine *)

EmptyStore == [n \in {} |-> 0]

NoRequest == [endpoint |-> "", playerName |-> None, region |-> Absent,
              action |-> None, field_id |-> None]

\* no request is in flight: each request is handled from its first line to
\* its answer before the next one starts
NoneInFlight == [t \in {} |-> 0]

\* no write-back recorded
NoHistory == [start |-> EmptyStore, saves |-> <<>>]

\* the dict objects of the players' states, for the requests that run at
\* once: heap[id] is the content of the object id, and at[name] is the id
\* of the object that game_saves[name] refers to.  Where each request is
\* handled before the next starts, game_saves alone tells the contents.
NoObjects == [heap |-> EmptyStore, at |-> EmptyStore]

Init ==
    /\ game_saves = EmptyStore
    /\ request = NoRequest
    /\ response = Response("", 0, "")
    /\ n_success = 0
    /\ inflight = NoneInFlight
    /\ history = NoHistory
    /\ objects = NoObjects

\* the bodies sent to POST /api/perform_action: the handler reads action
\* only for a player it finds, and params.field_id only in the plant, water
\* and harvest branches, so the parts it never reads are left absent
ActionBodies(store) ==
    {ActionRequest(n, None, None) :
        n \in {n \in NameInputs : ~Truthy(n) \/ Val(n) \notin DOMAIN store}}
    \cup {ActionRequest(n, a, None) :
        n \in {Some(m) : m \in DOMAIN store},
        a \in ActionInputs \ {Some("plant"), Some("water"), Some("harvest")}}
    \cup {ActionRequest(n, a, f) :
        n \in {Some(m) : m \in DOMAIN store},
        a \in {Some("plant"), Some("water"), Some("harvest")},
        f \in FieldIdInputs}

\* the prices random.randint returns during a request: advance_day alone
\* draws any
RollsFor(action_type) ==
    IF action_type = Some("next_day") THEN PriceRolls
    ELSE {[k \in PriceKeys |-> 0]}

\* one request handled: the store and the response are the handler's.  A
\* success is counted, and explored only while the budget lasts.
Handled(body, out) ==
    /\ game_saves' = out.store
    /\ request' = body
    /\ response' = out.response
    /\ IF out.response.status = "success"
       THEN n_success < MaxSteps /\ n_success' = n_success + 1
       ELSE n_success' = n_success
    /\ UNCHANGED <<inflight, history, objects>>

\* the bodies sent to POST /api/player: the handler reads region only
\* after it found a name
LoginBodies ==
    {LoginRequest(n, Absent) : n \in {n \in NameInputs : ~Truthy(n)}}
    \cup {LoginRequest(n, r) :
            n \in {n \in NameInputs : Truthy(n)}, r \in RegionInputs}

\* a request to POST /api/player, handled from its first line to its answer
\* with no other request beside it (RaceLogin below has the handler a line
\* at a time, beside other requests)
create_or_login_player ==
    \E body \in LoginBodies :
      \E price \in PriceChoices, nasa \in NasaChoices :
        Handled(body, CreateOrLogin(game_saves, body.playerName, body.region,
                                    price, nasa))

perform_action ==
    \E body \in ActionBodies(game_saves) :
      \E rolls \in RollsFor(body.action) :
        Handled(body, PerformAction(game_saves, body.playerName, body.action,
                                    body.field_id, rolls))

Next == create_or_login_player \/ perform_action

Spec == Init /\ [][Next]_vars

----------------------------------------------------------------------------
(* Late in a game.  A state with no seeds left, or a balance at or below   *)
(* zero, lies hundreds of requests after the login, so the exploration     *)
(* also starts from two states of one scripted game of Amina's, each the   *)
(* result of the handlers above on the script's requests.                  *)

Step(action, field) == [action |-> Some(action), field_id |-> Some(field)]

\* script, n times over
Repeat(script, n) ==
    [i \in 1..(n * Len(script)) |-> script[((i - 1) % Len(script)) + 1]]

\* plant both fields, water both before each of five days, harvest both
CycleBoth ==
    <<Step("plant", 1), Step("plant", 2)>>
    \o Repeat(<<Step("water", 1), Step("water", 2), Step("next_day", 1)>>, 5)
    \o <<Step("harvest", 1), Step("harvest", 2)>>

\* 9 plants, 80 harvested, 500 waters; it ends with field 1 growing at
\* stage 3 and field 2 ready to harvest
LateScript ==
    Repeat(CycleBoth, 3)
    \o <<Step("plant", 2)>>
    \o Repeat(<<Step("water", 2), Step("next_day", 1)>>, 5)
    \o <<Step("harvest", 2)>>
    \o Repeat(<<Step("water", 1)>>, 460)
    \o <<Step("plant", 2)>>
    \o Repeat(<<Step("water", 2), Step("next_day", 1)>>, 2)
    \o <<Step("plant", 1)>>
    \o Repeat(<<Step("water", 2), Step("next_day", 1)>>, 3)

\* then field 1 is watered, grows to stage 5 and is harvested
LateScript2 ==
    <<Step("water", 1), Step("next_day", 1), Step("next_day", 1),
      Step("harvest", 1)>>

\* the store after requests first..last of script, sent one after the
\* other for the player name (the store between the two halves is bound by
\* a quantifier, which has it computed before the second half starts)
RECURSIVE Play(_, _, _, _, _)
Play(store, name, script, first, last) ==
    IF first > last THEN store
    ELSE IF first = last
    THEN PerformAction(store, Some(name), script[first].action,
                       script[first].field_id,
                       [k \in PriceKeys |-> 500]).store
    ELSE LET mid == (first + last) \div 2
         IN  CHOOSE out \in
                {Play(half, name, script, mid + 1, last) :
                    half \in {Play(store, name, script, first, mid)}} : TRUE

FreshStore(name) ==
    CreateOrLogin(EmptyStore, Some(name), Absent, 500,
                  CHOOSE nasa \in NasaChoices : nasa.soil_moisture = 20).store

LateGrowing ==
    Play(FreshStore("Amina"), "Amina", LateScript, 1, Len(LateScript))

LateFallow == Play(LateGrowing, "Amina", LateScript2, 1, Len(LateScript2))

InitLate ==
    /\ game_saves \in {LateGrowing, LateFallow}
    /\ request = NoRequest
    /\ response = Response("", 0, "")
    /\ n_success = 0
    /\ inflight = NoneInFlight
    /\ history = NoHistory
    /\ objects = NoObjects

SpecLate == InitLate /\ [][Next]_vars

----------------------------------------------------------------------------
(* The full-cycle scenario: Amina logs in to Morogoro, plants field 1,     *)
(* waters it so that every day starts with its water_level above 0.4, and  *)
(* asks for the harvest.  The requests go through the same handlers.       *)

\* days the scenario lets pass
MaxScenarioDays == 5

Seeds(player_state) == player_state.inventory["Maize Seed"]

Harvested(player_state) == player_state.inventory["Harvested Maize"]

\* one request of the scenario handled; the budget above does not apply
ScenarioHandled(body, out) ==
    /\ game_saves' = out.store
    /\ request' = body
    /\ response' = out.response
    /\ n_success' = IF out.response.status = "success"
                    THEN n_success + 1 ELSE n_success
    /\ UNCHANGED <<inflight, history, objects>>

ScenarioSend(body, rolls) ==
    ScenarioHandled(body, PerformAction(game_saves, body.playerName,
                                        body.action, body.field_id, rolls))

ScenarioCreate(body, price, nasa) ==
    ScenarioHandled(body, CreateOrLogin(game_saves, body.playerName,
                                        body.region, price, nasa))

\* the scenario's plant is done and its harvest is not
ScenarioGrowing ==
    /\ "Amina" \in DOMAIN game_saves
    /\ Seeds(game_saves["Amina"]) = 9
    /\ Harvested(game_saves["Amina"]) = 0

ScenarioLogin ==
    /\ game_saves = EmptyStore
    /\ \E price \in PriceChoices, nasa \in NasaChoices :
        ScenarioCreate(LoginRequest(Some("Amina"), Some("Morogoro")),
                       price, nasa)

ScenarioPlant ==
    /\ "Amina" \in DOMAIN game_saves
    /\ Seeds(game_saves["Amina"]) = 10
    /\ ScenarioSend(ActionRequest(Some("Amina"), Some("plant"), Some(1)),
                    [k \in PriceKeys |-> 0])

ScenarioWater ==
    /\ ScenarioGrowing
    /\ game_saves["Amina"].balance > 50000 - 100 * MaxScenarioWaters
    /\ ScenarioSend(ActionRequest(Some("Amina"), Some("water"), Some(1)),
                    [k \in PriceKeys |-> 0])

ScenarioAdvance ==
    /\ ScenarioGrowing
    /\ game_saves["Amina"].current_day <= MaxScenarioDays
    /\ FGreater(game_saves["Amina"].fields[1].water_level, F_0_4)
    /\ \E rolls \in PriceRolls :
        ScenarioSend(ActionRequest(Some("Amina"), Some("next_day"), None),
                     rolls)

ScenarioHarvest ==
    /\ ScenarioGrowing
    /\ ScenarioSend(ActionRequest(Some("Amina"), Some("harvest"), Some(1)),
                    [k \in PriceKeys |-> 0])

ScenarioNext ==
    \/ ScenarioLogin
    \/ ScenarioPlant
    \/ ScenarioWater
    \/ ScenarioAdvance
    \/ ScenarioHarvest

SpecScenario == Init /\ [][ScenarioNext]_vars

----------------------------------------------------------------------------
(* Requests at once.  The development server answers each request in a     *)
(* thread of its own and neither handler takes a lock, so the lines of the *)
(* requests interleave.  A player's state is a dict object: game_saves     *)
(* holds a reference to it, and so does the player_state or new_state of   *)
(* every request that has looked it up or made it.  A request reads and    *)
(* writes the object it refers to, which is the stored one until another   *)
(* request stores a different object under the name.  A step is one read   *)
(* or one write of the store or of an object; `x -= 1` is a read and,      *)
(* later, a write.                                                         *)

\* the two requests that every race has
Workers == {1, 2}

\* with the login that some races have beside them
AllWorkers == Workers \cup {3}

\* the objects of a store that no request is working on: one for each name
ObjectsOf(store) == [heap |-> store, at |-> [n \in DOMAIN store |-> n]]

\* game_saves, with the content of each object it refers to
StoreOf(objs) == [n \in DOMAIN objs.at |-> objs.heap[objs.at[n]]]

\* the object that initialize_game_state returns to request t
NewId(t) == "new_state " \o ToString(t)

\* a request in flight: its body, the line it is at (pc), the object its
\* player_state or new_state refers to (obj), the index i of the field its
\* loop is at, and what it has read and not yet written back (an int in n,
\* a float in w, a crop in crop)
NewWorker(body) ==
    [body |-> body,
     pc |-> IF body.endpoint = "/api/player" THEN "login_test" ELSE "lookup",
     obj |-> "", i |-> 0, n |-> 0, w |-> F_0, crop |-> None,
     response |-> Response("", 0, "")]

Goto(w, pc) == [w EXCEPT !.pc = pc]

GotoField(w, pc, i) == [w EXCEPT !.pc = pc, !.i = i]

\* the request is answered
Answered(w, answer) == [w EXCEPT !.pc = "done", !.response = answer]

\* the worker and the record after a step
Moved(w, ps) == [w |-> w, ps |-> ps]

\* `for field in player_state['fields']` moves on: to the test of the next
\* field, or past the loop
NextField(w, ps, test, after) ==
    IF w.i < Len(ps.fields) THEN GotoField(w, test, w.i + 1)
    ELSE Goto(w, after)

\* advance_day, a read or a write at a time
RaceAdvance(w, ps, rolls) ==
    CASE w.pc = "day_read" ->
           Moved([w EXCEPT !.pc = "day_write", !.n = ps.current_day], ps)
      [] w.pc = "day_write" ->
           Moved(Goto(w, "prices"), [ps EXCEPT !.current_day = w.n + 1])
      [] w.pc = "prices" ->
           Moved(NextField([w EXCEPT !.i = 0], ps, "adv_crop", "save"),
                 [ps EXCEPT !.market_prices = [k \in DOMAIN @ |-> rolls[k]]])
      [] w.pc = "adv_crop" ->
           Moved(IF Truthy(ps.fields[w.i].crop) THEN Goto(w, "adv_status")
                 ELSE NextField(w, ps, "adv_crop", "save"), ps)
      [] w.pc = "adv_status" ->
           Moved(IF ps.fields[w.i].status = "Growing" THEN Goto(w, "adv_wet")
                 ELSE NextField(w, ps, "adv_crop", "save"), ps)
      [] w.pc = "adv_wet" ->
           Moved(IF FGreater(ps.fields[w.i].water_level, F_0_4)
                 THEN Goto(w, "adv_stage_read")
                 ELSE Goto(w, "adv_water_read"), ps)
      [] w.pc = "adv_stage_read" ->
           Moved([w EXCEPT !.pc = "adv_stage_write",
                           !.n = ps.fields[w.i].growth_stage], ps)
      [] w.pc = "adv_stage_write" ->
           Moved(Goto(w, "adv_water_read"),
                 [ps EXCEPT !.fields[w.i].growth_stage = w.n + 1])
      [] w.pc = "adv_water_read" ->
           Moved([w EXCEPT !.pc = "adv_water_write",
                    !.w = PyMax(F_0, FSub(ps.fields[w.i].water_level,
                                          F_0_2))], ps)
      [] w.pc = "adv_water_write" ->
           Moved(Goto(w, "adv_info"),
                 [ps EXCEPT !.fields[w.i].water_level = w.w])
      [] w.pc = "adv_info" ->
           Moved([w EXCEPT !.pc = "adv_ripe", !.crop = ps.fields[w.i].crop],
                 ps)
      [] w.pc = "adv_ripe" ->
           Moved(IF w.crop = None \/ Val(w.crop) \notin DOMAIN CROP_DATA
                 THEN Goto(w, "raise")
                 ELSE IF ps.fields[w.i].growth_stage
                           >= CROP_DATA[Val(w.crop)].growth_time
                 THEN Goto(w, "adv_ready")
                 ELSE NextField(w, ps, "adv_crop", "save"), ps)
      [] w.pc = "adv_ready" ->
           Moved(NextField(w, ps, "adv_crop", "save"),
                 [ps EXCEPT !.fields[w.i].status = "Ready to Harvest"])

AdvancePcs ==
    {"day_read", "day_write", "prices", "adv_crop", "adv_status", "adv_wet",
     "adv_stage_read", "adv_stage_write", "adv_water_read",
     "adv_water_write", "adv_info", "adv_ripe", "adv_ready"}

\* a plant branch that takes the seed as soon as it has seen one, before
\* it looks for the field
RacePlant_SeedSpentFirst(w, ps) ==
    CASE w.pc = "plant_seed" ->
           IF DictGet(ps.inventory, SeedItem("Maize"), 0) > 0
           THEN Moved(NextField([w EXCEPT !.i = 0], ps, "plant_test", "fail"),
                      [ps EXCEPT !.inventory[SeedItem("Maize")] = @ - 1])
           ELSE Moved(Goto(w, "fail"), ps)
      [] w.pc = "plant_test" ->
           Moved(IF IdMatches(ps.fields[w.i], w.body.field_id)
                    /\ ps.fields[w.i].status = "Fallow"
                 THEN Goto(w, "plant_crop")
                 ELSE NextField(w, ps, "plant_test", "fail"), ps)
      [] w.pc = "plant_crop" ->
           Moved(Goto(w, "plant_status"),
                 [ps EXCEPT !.fields[w.i].crop = Some("Maize")])
      [] w.pc = "plant_status" ->
           Moved(Goto(w, "plant_stage"),
                 [ps EXCEPT !.fields[w.i].status = "Growing"])
      [] w.pc = "plant_stage" ->
           Moved(Goto(w, "save"), [ps EXCEPT !.fields[w.i].growth_stage = 0])

\* the plant branch, a read or a write at a time
RacePlant(w, ps) ==
    CASE w.pc = "plant_seed" ->
           Moved(IF DictGet(ps.inventory, SeedItem("Maize"), 0) > 0
                 THEN NextField([w EXCEPT !.i = 0], ps, "plant_test", "fail")
                 ELSE Goto(w, "fail"), ps)
      [] w.pc = "plant_test" ->
           Moved(IF IdMatches(ps.fields[w.i], w.body.field_id)
                    /\ ps.fields[w.i].status = "Fallow"
                 THEN Goto(w, "plant_crop")
                 ELSE NextField(w, ps, "plant_test", "fail"), ps)
      [] w.pc = "plant_crop" ->
           Moved(Goto(w, "plant_status"),
                 [ps EXCEPT !.fields[w.i].crop = Some("Maize")])
      [] w.pc = "plant_status" ->
           Moved(Goto(w, "plant_stage"),
                 [ps EXCEPT !.fields[w.i].status = "Growing"])
      [] w.pc = "plant_stage" ->
           Moved(Goto(w, "plant_take_read"),
                 [ps EXCEPT !.fields[w.i].growth_stage = 0])
      [] w.pc = "plant_take_read" ->
           Moved([w EXCEPT !.pc = "plant_take_write",
                           !.n = ps.inventory[SeedItem("Maize")]], ps)
      [] w.pc = "plant_take_write" ->
           Moved(Goto(w, "save"),
                 [ps EXCEPT !.inventory[SeedItem("Maize")] = w.n - 1])

PlantPcs ==
    {"plant_seed", "plant_test", "plant_crop", "plant_status", "plant_stage",
     "plant_take_read", "plant_take_write"}

\* the water branch, a read or a write at a time
RaceWater(w, ps) ==
    CASE w.pc = "water_find" ->
           Moved(IF IdMatches(ps.fields[w.i], w.body.field_id)
                 THEN Goto(w, "water_read")
                 ELSE NextField(w, ps, "water_find", "fail"), ps)
      [] w.pc = "water_read" ->
           Moved([w EXCEPT !.pc = "water_write",
                    !.w = PyMin(F_1_0, FAdd(ps.fields[w.i].water_level,
                                            F_0_4))], ps)
      [] w.pc = "water_write" ->
           Moved(Goto(w, "pay_read"),
                 [ps EXCEPT !.fields[w.i].water_level = w.w])
      [] w.pc = "pay_read" ->
           Moved([w EXCEPT !.pc = "pay_write", !.n = ps.balance], ps)
      [] w.pc = "pay_write" ->
           Moved(Goto(w, "save"), [ps EXCEPT !.balance = w.n - 100])

WaterPcs == {"water_find", "water_read", "water_write", "pay_read",
             "pay_write"}

\* the harvest branch, a read or a write at a time; CROP_DATA[crop_name]
\* raises a KeyError for a crop that another request has just set to None
RaceHarvest(w, ps) ==
    CASE w.pc = "harvest_test" ->
           Moved(IF IdMatches(ps.fields[w.i], w.body.field_id)
                    /\ ps.fields[w.i].status = "Ready to Harvest"
                 THEN Goto(w, "harvest_crop")
                 ELSE NextField(w, ps, "harvest_test", "fail"), ps)
      [] w.pc = "harvest_crop" ->
           Moved(IF ps.fields[w.i].crop = None
                    \/ Val(ps.fields[w.i].crop) \notin DOMAIN CROP_DATA
                 THEN Goto(w, "raise")
                 ELSE [w EXCEPT !.pc = "harvest_read",
                                !.crop = ps.fields[w.i].crop], ps)
      [] w.pc = "harvest_read" ->
           Moved([w EXCEPT !.pc = "harvest_write",
                    !.n = DictGet(ps.inventory, HarvestedItem(Val(w.crop)),
                                  0)], ps)
      [] w.pc = "harvest_write" ->
           Moved(Goto(w, "harvest_clear"),
                 [ps EXCEPT !.inventory =
                     DictSet(@, HarvestedItem(Val(w.crop)),
                             w.n + CROP_DATA[Val(w.crop)].yield)])
      [] w.pc = "harvest_clear" ->
           Moved(Goto(w, "harvest_status"),
                 [ps EXCEPT !.fields[w.i].crop = None])
      [] w.pc = "harvest_status" ->
           Moved(Goto(w, "harvest_stage"),
                 [ps EXCEPT !.fields[w.i].status = "Fallow"])
      [] w.pc = "harvest_stage" ->
           Moved(Goto(w, "save"), [ps EXCEPT !.fields[w.i].growth_stage = 0])

HarvestPcs ==
    {"harvest_test", "harvest_crop", "harvest_read", "harvest_write",
     "harvest_clear", "harvest_status", "harvest_stage"}

\* the worker and the objects after a step
Stepped(w, objs) == [w |-> w, objs |-> objs]

\* create_or_login_player, a read or a write of the store or of an object
\* at a time.  The test of line 90, the store of line 102 and the write of
\* nasa_data in line 103 are three steps: the name may be stored by another
\* request between the first two, and the record is in the store without
\* nasa_data between the last two.  What a step reads of the request alone
\* (lines 83-87 and 97-99) goes with the step before it.
RaceLogin(t, w, objs, price, nasa) ==
    CASE w.pc = "login_test" ->
           IF ~Truthy(w.body.playerName)
           THEN Stepped(Answered(w, Response("error", 400,
                                             "Player name is required.")),
                        objs)
           ELSE IF Val(w.body.playerName) \in DOMAIN objs.at
           THEN Stepped(Goto(w, "login_bind"), objs)
           ELSE IF Get(w.body.region, Some("Morogoro")) = None
                   \/ Val(Get(w.body.region, Some("Morogoro")))
                        \notin DOMAIN REGIONS
           THEN Stepped(Answered(w, Response("error", 400,
                                             "Invalid region selected.")),
                        objs)
           ELSE Stepped([w EXCEPT !.pc = "login_store", !.obj = NewId(t)],
                        [objs EXCEPT !.heap =
                            DictSet(@, NewId(t),
                                initialize_game_state(
                                    Val(w.body.playerName),
                                    Val(Get(w.body.region, Some("Morogoro"))),
                                    price))])
      [] w.pc = "login_bind" ->
           Stepped([w EXCEPT !.pc = "login_fetch",
                             !.obj = objs.at[Val(w.body.playerName)]], objs)
      [] w.pc = "login_fetch" ->
           Stepped(Answered(w, Response("success", 200,
                       "Welcome back, " \o Val(w.body.playerName) \o "!")),
                   [objs EXCEPT !.heap[w.obj].nasa_data = Some(nasa)])
      [] w.pc = "login_store" ->
           Stepped(Goto(w, "login_new_fetch"),
                   [objs EXCEPT !.at = DictSet(@, Val(w.body.playerName),
                                               w.obj)])
      [] w.pc = "login_new_fetch" ->
           Stepped(Answered(w, Response("success", 200,
                       "New farm created for " \o Val(w.body.playerName)
                       \o " in " \o objs.heap[w.obj].region \o "!")),
                   [objs EXCEPT !.heap[w.obj].nasa_data = Some(nasa)])

LoginPcs == {"login_test", "login_bind", "login_fetch", "login_store",
             "login_new_fetch"}

\* lines 109-112: the name is looked for in the store
RaceLookup(w, objs) ==
    IF ~Truthy(w.body.playerName)
       \/ Val(w.body.playerName) \notin DOMAIN objs.at
    THEN Answered(w, Response("error", 404, "Player not found."))
    ELSE Goto(w, "bind")

\* line 114, player_state = game_saves[player_name]: the request refers to
\* the object that is in the store now
RaceBind(w, objs) ==
    [w EXCEPT !.pc = "branch", !.obj = objs.at[Val(w.body.playerName)]]

\* lines 115-125, 139 and 148: the branch of the action is entered
RaceBranch(w, ps) ==
    IF w.body.action = Some("next_day") THEN Goto(w, "day_read")
    ELSE IF w.body.action = Some("plant") THEN Goto(w, "plant_seed")
    ELSE IF w.body.action = Some("water")
    THEN NextField([w EXCEPT !.i = 0], ps, "water_find", "fail")
    ELSE IF w.body.action = Some("harvest")
    THEN NextField([w EXCEPT !.i = 0], ps, "harvest_test", "fail")
    ELSE Goto(w, "fail")

\* the message a branch leaves for the answer
RaceMessage(w) ==
    IF w.body.action = Some("next_day") THEN "A new day has dawned."
    ELSE IF w.body.action = Some("plant")
    THEN "You planted Maize in Field " \o ToString(Val(w.body.field_id))
         \o "."
    ELSE IF w.body.action = Some("water")
    THEN "You watered Field " \o ToString(Val(w.body.field_id))
         \o ". It cost 100 TZS."
    ELSE "You harvested " \o ToString(CROP_DATA[Val(w.crop)].yield)
         \o " units of " \o Val(w.crop) \o "!"

\* lines 163-167, or the 500 of an exception
RaceAnswer(w) ==
    Answered(w, IF w.pc = "save"
                THEN Response("success", 200, RaceMessage(w))
                ELSE IF w.pc = "fail"
                THEN Response("error", 400, NotRecognized)
                ELSE Response("error", 500, "Internal Server Error"))

\* a branch's step on the object the request refers to
RaceOnRecord(objs, id, out) ==
    Stepped(out.w, [objs EXCEPT !.heap[id] = out.ps])

\* one step of request t.  The save of line 164 stores the object the
\* request refers to: the one that is in the store already, unless a login
\* has stored another since line 114.
RaceStep(t, w, objs, rolls, price, nasa) ==
    IF w.pc \in LoginPcs THEN RaceLogin(t, w, objs, price, nasa)
    ELSE IF w.pc = "lookup" THEN Stepped(RaceLookup(w, objs), objs)
    ELSE IF w.pc = "bind" THEN Stepped(RaceBind(w, objs), objs)
    ELSE IF w.pc = "branch"
    THEN Stepped(RaceBranch(w, objs.heap[w.obj]), objs)
    ELSE IF w.pc \in AdvancePcs
    THEN RaceOnRecord(objs, w.obj, RaceAdvance(w, objs.heap[w.obj], rolls))
    ELSE IF w.pc \in PlantPcs
    THEN RaceOnRecord(objs, w.obj, RacePlant(w, objs.heap[w.obj]))
    ELSE IF w.pc \in WaterPcs
    THEN RaceOnRecord(objs, w.obj, RaceWater(w, objs.heap[w.obj]))
    ELSE IF w.pc \in HarvestPcs
    THEN RaceOnRecord(objs, w.obj, RaceHarvest(w, objs.heap[w.obj]))
    ELSE Stepped(RaceAnswer(w),
                 IF w.pc = "save"
                 THEN [objs EXCEPT !.at = DictSet(@, Val(w.body.playerName),
                                                  w.obj)]
                 ELSE objs)

\* the bodies of the requests that race, all for one name: the actions,
\* and a login without a region or with one that is no region
RaceLogins ==
    {LoginRequest(Some("Amina"), r) : r \in {Absent, Some("Atlantis")}}

RaceBodies ==
    {ActionRequest(Some("Amina"), a, None) :
        a \in ActionInputs \ {Some("plant"), Some("water"), Some("harvest")}}
    \cup {ActionRequest(Some("Amina"), a, f) :
            a \in {Some("plant"), Some("water"), Some("harvest")},
            f \in FieldIdInputs}
    \cup RaceLogins

\* the objects something refers to: the store, or a request in flight
Live(objs, flight) ==
    {objs.at[n] : n \in DOMAIN objs.at}
    \cup {flight[t].obj : t \in {t \in DOMAIN flight : flight[t].pc # "done"}}

\* an object nothing refers to is freed
Collect(objs, flight) ==
    [objs EXCEPT !.heap = [id \in DOMAIN @ \cap Live(objs, flight) |-> @[id]]]

\* a write of game_saves[name], line 102 or line 164, is noted with the
\* record it stored
Saved(t, w, objs) ==
    [worker |-> t, endpoint |-> w.body.endpoint, record |-> objs.heap[w.obj]]

\* worker t has taken the step `out`; an answer shows in request and
\* response
RaceTaken(t, out) ==
    /\ inflight' = [inflight EXCEPT ![t] = out.w]
    /\ objects' = Collect(out.objs, inflight')
    /\ game_saves' = StoreOf(objects')
    /\ history' = IF inflight[t].pc \in {"save", "login_store"}
                  THEN [history EXCEPT
                          !.saves = Append(@, Saved(t, out.w, out.objs))]
                  ELSE history
    /\ IF out.w.pc = "done"
       THEN /\ request' = out.w.body
            /\ response' = out.w.response
            /\ n_success' = IF out.w.response.status = "success"
                            THEN n_success + 1 ELSE n_success
       ELSE UNCHANGED <<request, response, n_success>>

\* what random.randint and get_simulated_nasa_data return in the step at pc
RacePrices(pc) == IF pc = "login_test" THEN PriceChoices ELSE {0}

RaceNasa(pc) ==
    IF pc \in {"login_fetch", "login_new_fetch"} THEN NasaChoices
    ELSE {CHOOSE nasa \in NasaChoices : nasa.soil_moisture = 20}

RaceRun(t) ==
    /\ inflight[t].pc # "done"
    /\ \E rolls \in RollsFor(IF inflight[t].pc = "prices"
                             THEN Some("next_day") ELSE None),
          price \in RacePrices(inflight[t].pc),
          nasa \in RaceNasa(inflight[t].pc) :
          RaceTaken(t, RaceStep(t, inflight[t], objects, rolls, price, nasa))

RaceNext == \E t \in DOMAIN inflight : RaceRun(t)

\* the requests in flight at once: two of any kind, and in some races a
\* login beside them
RaceFlights ==
    [Workers -> {NewWorker(b) : b \in RaceBodies}]
    \cup {flight \in [AllWorkers -> {NewWorker(b) : b \in RaceBodies}] :
            flight[3].body \in RaceLogins}

\* the requests arrive before Amina has a farm, or late in her game
InitRace ==
    /\ game_saves \in {EmptyStore, LateGrowing, LateFallow}
    /\ objects = ObjectsOf(game_saves)
    /\ request = NoRequest
    /\ response = Response("", 0, "")
    /\ n_success = 0
    /\ inflight \in RaceFlights
    /\ history = [start |-> game_saves, saves |-> <<>>]

SpecRace == InitRace /\ [][RaceNext]_vars

----------------------------------------------------------------------------
(* Properties *)

Asks(req, action) ==
    req.endpoint = "/api/perform_action" /\ req.action = Some(action)

\* the request names a player of the store
Known(req, store) ==
    Truthy(req.playerName) /\ Val(req.playerName) \in DOMAIN store

Succeeded(resp) == resp.status = "success"

\* the indices of the fields of a player with the id a request names
FieldsWithId(player_state, field_id) ==
    {i \in 1..Len(player_state.fields) :
        field_id # None /\ player_state.fields[i].id = Val(field_id)}

\* C1: a perform_action request answered with an error (player missing or
\* unknown, action not recognized, plant, water or harvest precondition not
\* met) leaves the whole store as it was.
C1_NoPartialApplication ==
    [][(request'.endpoint = "/api/perform_action" /\ ~Succeeded(response'))
         => game_saves' = game_saves]_vars

\* a plant was refused although the player had seeds
C1_Witness ==
    /\ Asks(request, "plant")
    /\ Known(request, game_saves)
    /\ response.code = 400
    /\ Seeds(game_saves[Val(request.playerName)]) > 0

\* C2: in every reachable state every field of every player has a crop
\* exactly when it is Growing or Ready to Harvest, and growth_stage 0 when it
\* is Fallow.
C2_CropIffPlanted ==
    \A n \in DOMAIN game_saves :
        \A i \in 1..Len(game_saves[n].fields) :
            /\ game_saves[n].fields[i].crop # None
                 <=> game_saves[n].fields[i].status
                       \in {"Growing", "Ready to Harvest"}
            /\ game_saves[n].fields[i].status = "Fallow"
                 => game_saves[n].fields[i].growth_stage = 0

\* a field that grew to stage 5 has just been harvested
C2_Witness ==
    /\ Asks(request, "harvest")
    /\ Succeeded(response)
    /\ \E i \in FieldsWithId(game_saves[Val(request.playerName)],
                             request.field_id) :
          /\ game_saves[Val(request.playerName)].fields[i].status = "Fallow"
          /\ game_saves[Val(request.playerName)].fields[i].crop = None
          /\ game_saves[Val(request.playerName)].fields[i].growth_stage = 0

\* the store after player n's state became after
StoreWith(n, after) == [game_saves EXCEPT ![n] = after]

PlantedField(field) ==
    [field EXCEPT !.crop = Some("Maize"), !.status = "Growing",
                  !.growth_stage = 0]

\* what C3 says of a plant of field_id by player n, whose state was before
C3_PlantOf(n, before, field_id) ==
    IF /\ Seeds(before) >= 1
       /\ \E i \in FieldsWithId(before, field_id) :
             before.fields[i].status = "Fallow"
    THEN /\ Succeeded(response')
         /\ \E i \in FieldsWithId(before, field_id) :
              game_saves' = StoreWith(n,
                  [before EXCEPT !.fields[i] = PlantedField(@),
                                 !.inventory["Maize Seed"] = @ - 1])
    ELSE /\ ~Succeeded(response')
         /\ game_saves' = game_saves

\* C3: plant succeeds exactly when the player holds a Maize Seed and the
\* field with the id exists and is Fallow; then that field becomes Maize,
\* Growing, stage 0, the seeds drop by one and nothing else changes;
\* otherwise nothing changes, also with no seed and a Fallow field.
C3_Plant ==
    [][(Asks(request', "plant") /\ Known(request', game_saves))
         => C3_PlantOf(Val(request'.playerName),
                       game_saves[Val(request'.playerName)],
                       request'.field_id)]_vars

\* a plant was refused with no seed left on a Fallow field
C3_Witness ==
    /\ Asks(request, "plant")
    /\ Known(request, game_saves)
    /\ ~Succeeded(response)
    /\ Seeds(game_saves[Val(request.playerName)]) = 0
    /\ \E i \in FieldsWithId(game_saves[Val(request.playerName)],
                             request.field_id) :
          game_saves[Val(request.playerName)].fields[i].status = "Fallow"

HarvestedField(field) ==
    [field EXCEPT !.crop = None, !.status = "Fallow", !.growth_stage = 0]

\* what C4 says of a harvest of field_id by player n, whose state was before
C4_HarvestOf(n, before, field_id) ==
    IF \E i \in FieldsWithId(before, field_id) :
          before.fields[i].status = "Ready to Harvest"
    THEN /\ Succeeded(response')
         /\ \E i \in FieldsWithId(before, field_id) :
              game_saves' = StoreWith(n,
                  [before EXCEPT !.fields[i] = HarvestedField(@),
                                 !.inventory["Harvested Maize"] = @ + 10])
    ELSE /\ ~Succeeded(response')
         /\ game_saves' = game_saves

\* C4: harvest succeeds exactly when the field with the id exists and is
\* Ready to Harvest; then Harvested Maize grows by the yield, 10, the field
\* becomes crop None, Fallow, stage 0, and its water_level and health, the
\* balance, the seeds and the other fields stay as they were.
C4_Harvest ==
    [][(Asks(request', "harvest") /\ Known(request', game_saves))
         => C4_HarvestOf(Val(request'.playerName),
                         game_saves[Val(request'.playerName)],
                         request'.field_id)]_vars

\* a harvest has added 10 to a stock of Harvested Maize
C4_Witness ==
    /\ Asks(request, "harvest")
    /\ Succeeded(response)
    /\ response.message = "You harvested 10 units of Maize!"
    /\ Harvested(game_saves[Val(request.playerName)]) >= 10

\* the original C5: every water action for a player of the store succeeds
\* and takes 100 from the balance
C5_WaterNeverErrors ==
    [][(Asks(request', "water") /\ Known(request', game_saves))
         => /\ Succeeded(response')
            /\ game_saves'[Val(request'.playerName)].balance
                 = game_saves[Val(request'.playerName)].balance - 100]_vars

C5_WaterOf(n, before, field_id) ==
    IF FieldsWithId(before, field_id) # {}
    THEN Succeeded(response') /\ game_saves'[n].balance = before.balance - 100
    ELSE ~Succeeded(response') /\ game_saves'[n].balance = before.balance

\* C5, amended: a water action that names one of the player's fields
\* succeeds and leaves the balance exactly 100 lower, whatever the sign of
\* the balance before; one that names no field of the player is answered
\* with an error and leaves the balance as it was.
C5_WaterOnField ==
    [][(Asks(request', "water") /\ Known(request', game_saves))
         => C5_WaterOf(Val(request'.playerName),
                       game_saves[Val(request'.playerName)],
                       request'.field_id)]_vars

\* a water succeeded on a balance that was already below zero
C5_Witness ==
    /\ Asks(request, "water")
    /\ Succeeded(response)
    /\ game_saves[Val(request.playerName)].balance <= -200

\* C6: water on a field that exists succeeds whatever the field's status
\* and the balance; the field's water_level becomes min(1.0, water_level +
\* 0.4), the balance drops by 100 with no test that it suffices, and no
\* status, crop, growth_stage or inventory changes.
C6_Water ==
    [][(Asks(request', "water") /\ Known(request', game_saves))
         => \A i \in FieldsWithId(game_saves[Val(request'.playerName)],
                                  request'.field_id) :
              /\ Succeeded(response')
              /\ game_saves' = StoreWith(Val(request'.playerName),
                   [game_saves[Val(request'.playerName)] EXCEPT
                      !.fields[i].water_level = PyMin(F_1_0, FAdd(@, F_0_4)),
                      !.balance = @ - 100])]_vars

\* a field that is Ready to Harvest was watered into a negative balance
C6_Witness ==
    /\ Asks(request, "water")
    /\ Succeeded(response)
    /\ game_saves[Val(request.playerName)].balance < 0
    /\ \E i \in FieldsWithId(game_saves[Val(request.playerName)],
                             request.field_id) :
          game_saves[Val(request.playerName)].fields[i].status
            = "Ready to Harvest"

IsGrowing(field) == field.crop # None /\ field.status = "Growing"

C7_AdvanceOf(before, after) ==
    \A i \in 1..Len(before.fields) :
        IsGrowing(before.fields[i]) =>
            /\ after.fields[i].growth_stage =
                 IF FGreater(before.fields[i].water_level, F_0_4)
                 THEN before.fields[i].growth_stage + 1
                 ELSE before.fields[i].growth_stage
            /\ after.fields[i].water_level =
                 PyMax(F_0, FSub(before.fields[i].water_level, F_0_2))

\* C7: a next_day on a field with a crop and status Growing adds exactly 1
\* to growth_stage if water_level was above 0.4 before and leaves it if it
\* was at or below 0.4; water_level becomes max(0, water_level - 0.2).
C7_Advance ==
    [][(Asks(request', "next_day") /\ Known(request', game_saves)
          /\ Succeeded(response'))
         => C7_AdvanceOf(game_saves[Val(request'.playerName)],
                         game_saves'[Val(request'.playerName)])]_vars

\* a day passed over a growing field that was too dry to grow, and its
\* water stopped at 0
C7_Witness ==
    /\ Asks(request, "next_day")
    /\ Succeeded(response)
    /\ \E i \in 1..Len(game_saves[Val(request.playerName)].fields) :
          /\ IsGrowing(game_saves[Val(request.playerName)].fields[i])
          /\ game_saves[Val(request.playerName)].fields[i].water_level = F_0
          /\ game_saves[Val(request.playerName)].fields[i].growth_stage = 4

C8_RipenOf(before, after) ==
    \A i \in 1..Len(before.fields) :
        IsGrowing(before.fields[i]) =>
            /\ after.fields[i].status = "Ready to Harvest"
                 <=> after.fields[i].growth_stage >= 5
            /\ after.fields[i].status \in {"Growing", "Ready to Harvest"}
            /\ after.fields[i].crop = before.fields[i].crop
            /\ after.fields[i].growth_stage >= before.fields[i].growth_stage

\* C8: after a next_day on a Growing field the field is Ready to Harvest
\* exactly when its growth_stage is then at least the growth time, 5; the
\* crop stays and the field is not reset.
C8_Ripen ==
    [][(Asks(request', "next_day") /\ Known(request', game_saves)
          /\ Succeeded(response'))
         => C8_RipenOf(game_saves[Val(request'.playerName)],
                       game_saves'[Val(request'.playerName)])]_vars

\* Amina's field 1, at stage 3 on day 26, has become ready with the
\* second next_day after
C8_Witness ==
    /\ request = ActionRequest(Some("Amina"), Some("next_day"), None)
    /\ Succeeded(response)
    /\ game_saves["Amina"].current_day = 28
    /\ game_saves["Amina"].fields[1].status = "Ready to Harvest"
    /\ game_saves["Amina"].fields[1].growth_stage = 5
    /\ game_saves["Amina"].fields[1].crop = Some("Maize")

Least(a, b) == IF a <= b THEN a ELSE b

\* what C9 says of the player's state after `days` next_day actions
C9_After(player_state, days) ==
    /\ Seeds(player_state) \in {9, 10}
    /\ Seeds(player_state) = 10 =>
          /\ player_state.balance = 50000
          /\ days = 0
          /\ Harvested(player_state) = 0
          /\ \A i \in {1, 2} : player_state.fields[i].status = "Fallow"
    /\ (Seeds(player_state) = 9 /\ Harvested(player_state) = 0) =>
          /\ player_state.fields[1].crop = Some("Maize")
          /\ player_state.fields[1].growth_stage = Least(days, 5)
          /\ player_state.fields[1].status =
               IF days >= 5 THEN "Ready to Harvest" ELSE "Growing"
    /\ Harvested(player_state) # 0 =>
          /\ Harvested(player_state) = 10
          /\ days >= 5
          /\ player_state.fields[1].status = "Fallow"
          /\ player_state.fields[1].crop = None
    /\ (Asks(request, "harvest") /\ days < 5) => ~Succeeded(response)

\* C9: from a new player (balance 50000, fields 1 and 2 Fallow, 10 seeds)
\* plant field 1 gives Growing and 9 seeds; next_day actions, each started
\* with field 1's water_level above 0.4, give growth_stage 5 and Ready to
\* Harvest after the fifth and not before; harvest then gives 10 Harvested
\* Maize and field 1 Fallow.
C9_FullCycle ==
    "Amina" \in DOMAIN game_saves =>
        C9_After(game_saves["Amina"], game_saves["Amina"].current_day - 1)

\* the harvest at the end of the cycle, after the fifth day
C9_Witness ==
    /\ request = ActionRequest(Some("Amina"), Some("harvest"), Some(1))
    /\ Succeeded(response)
    /\ game_saves["Amina"].current_day = 6
    /\ Harvested(game_saves["Amina"]) = 10
    /\ Seeds(game_saves["Amina"]) = 9
    /\ game_saves["Amina"].fields[1].status = "Fallow"

\* C10: the names in the store never get fewer; a name is added only by a
\* login with a name that is not empty and not in the store and a region
\* of the catalog (which the missing region defaults to; a null region is
\* no region of the catalog); perform_action
\* adds none, and for a name not in the store it answers with an error and
\* leaves the store as it was.
C10_Lifecycle ==
    [][/\ DOMAIN game_saves \subseteq DOMAIN game_saves'
       /\ DOMAIN game_saves' # DOMAIN game_saves =>
            /\ request'.endpoint = "/api/player"
            /\ Truthy(request'.playerName)
            /\ Val(request'.playerName) \notin DOMAIN game_saves
            /\ request'.region = Absent
                 \/ /\ request'.region # None
                    /\ Val(request'.region) \in DOMAIN REGIONS
            /\ DOMAIN game_saves'
                 = DOMAIN game_saves \cup {Val(request'.playerName)}
       /\ (request'.endpoint = "/api/perform_action"
             /\ ~Known(request', game_saves)) =>
            /\ ~Succeeded(response')
            /\ game_saves' = game_saves]_vars

\* a second farm was made by a login, for Baraka
C10_Witness ==
    /\ request.endpoint = "/api/player"
    /\ request.playerName = Some("Baraka")
    /\ response.message = "New farm created for Baraka in Morogoro!"
    /\ DOMAIN game_saves = {"Amina", "Baraka"}

\* C11: whatever request is handled for a player P (next_day, plant, water,
\* harvest or a login), the stored state of every other player Q stays in
\* the store exactly as it was: day, prices, balance, inventory and fields.
C11_Isolation ==
    [][\A q \in DOMAIN game_saves :
          (request'.playerName = None \/ Val(request'.playerName) # q)
             => /\ q \in DOMAIN game_saves'
                /\ game_saves'[q] = game_saves[q]]_vars

\* Amina harvested a field while Baraka's new farm was in the store
C11_Witness ==
    /\ DOMAIN game_saves = {"Amina", "Baraka"}
    /\ request = ActionRequest(Some("Amina"), Some("harvest"), Some(2))
    /\ Succeeded(response)
    /\ Harvested(game_saves["Amina"]) >= 80
    /\ Harvested(game_saves["Baraka"]) = 0
    /\ game_saves["Baraka"].current_day = 1

\* every crop in a field is a key of the crop catalog
C12_CropsKnown(player_state) ==
    \A i \in 1..Len(player_state.fields) :
        player_state.fields[i].crop # None
           => Val(player_state.fields[i].crop) \in DOMAIN CROP_DATA

\* what a step does to the days: the next_day of a player of the store
\* succeeds and adds one day, nothing else changes a day, and a new player
\* starts on day 1
C12_DaysStep ==
    /\ response'.code # 500
    /\ (Asks(request', "next_day") /\ Known(request', game_saves))
          => Succeeded(response')
    /\ \A n \in DOMAIN game_saves' :
          game_saves'[n].current_day =
             IF n \notin DOMAIN game_saves THEN 1
             ELSE IF Asks(request', "next_day")
                     /\ request'.playerName = Some(n)
             THEN game_saves[n].current_day + 1
             ELSE game_saves[n].current_day

\* C12: a next_day for a player of the store always succeeds, never meets a
\* crop the catalog lacks (no field ever holds one), and adds exactly 1 to
\* current_day; no other request changes current_day and a new player
\* starts on day 1, so that current_day is at least 1 and is 1 plus the
\* number of the player's next_day actions.
C12_NextDay ==
    /\ [](\A n \in DOMAIN game_saves :
             game_saves[n].current_day >= 1 /\ C12_CropsKnown(game_saves[n]))
    /\ [][C12_DaysStep]_vars

\* a day passed over Amina's growing field 1: day 26 became day 27
C12_Witness ==
    /\ request = ActionRequest(Some("Amina"), Some("next_day"), None)
    /\ Succeeded(response)
    /\ game_saves["Amina"].current_day = 27
    /\ game_saves["Amina"].fields[1].status = "Growing"
    /\ game_saves["Amina"].fields[1].growth_stage = 4

\* 0 <= w <= 1
C13_InRange(w) == ~FLess(w, F_0) /\ ~FGreater(w, F_1_0)

\* a request that is neither a water nor a next_day leaves every
\* water_level of the store as it was
C13_OthersKeepWater ==
    (~Asks(request', "water") /\ ~Asks(request', "next_day"))
       => \A n \in DOMAIN game_saves :
            \A i \in 1..Len(game_saves[n].fields) :
               game_saves'[n].fields[i].water_level
                 = game_saves[n].fields[i].water_level

\* C13: in every reachable state every field's water_level is at least 0
\* and at most 1: water caps it at 1.0, next_day floors it at 0, and no
\* other request changes it.
C13_WaterInRange ==
    /\ [](\A n \in DOMAIN game_saves :
             \A i \in 1..Len(game_saves[n].fields) :
                C13_InRange(game_saves[n].fields[i].water_level))
    /\ [][C13_OthersKeepWater]_vars

\* the third dry day in a row over Amina's growing field 1: its water,
\* a little above 0 the day before, stopped at 0 and not below
C13_Witness ==
    /\ request = ActionRequest(Some("Amina"), Some("next_day"), None)
    /\ Succeeded(response)
    /\ game_saves["Amina"].current_day = 29
    /\ game_saves["Amina"].fields[1].status = "Growing"
    /\ game_saves["Amina"].fields[1].water_level = F_0

\* what C14 says of a login with a name and a region, on the store before
C14_LoginOf(n, region, before) ==
    IF n \in DOMAIN before
    THEN /\ Succeeded(response')
         /\ DOMAIN game_saves' = DOMAIN before
         /\ \E nasa \in NasaChoices :
              game_saves' = [before EXCEPT ![n].nasa_data = Some(nasa)]
    ELSE (region # Absent
            /\ (region = None \/ Val(region) \notin DOMAIN REGIONS))
            => /\ ~Succeeded(response')
               /\ response'.code = 400
               /\ game_saves' = before

\* C14: a login with a name of the store, whatever region it carries (none,
\* a null, a region of the catalog or one that is not), leaves the player's
\* balance, current_day, fields, inventory and market_prices as they were
\* and writes nasa_data only; a login with a new name and a region that is
\* not in the catalog (a null is none of its keys) is answered with an
\* error and adds nothing to the store.
C14_Login ==
    [][(request'.endpoint = "/api/player" /\ Truthy(request'.playerName))
         => C14_LoginOf(Val(request'.playerName), request'.region,
                        game_saves)]_vars

\* Amina logged in again, naming a region that does not exist, late in her
\* game: her farm is as it was
C14_Witness ==
    /\ request = LoginRequest(Some("Amina"), Some("Atlantis"))
    /\ response.message = "Welcome back, Amina!"
    /\ game_saves["Amina"].current_day = 26
    /\ game_saves["Amina"].balance = 0
    /\ Seeds(game_saves["Amina"]) = 1
    /\ Harvested(game_saves["Amina"]) = 70
    /\ game_saves["Amina"].fields[2].status = "Ready to Harvest"

\* what C15 says of a player's fields before and after a next_day
C15_AdvanceOf(before, after) ==
    /\ Len(after.fields) = Len(before.fields)
    /\ \A i \in 1..Len(before.fields) :
          /\ before.fields[i].status # "Growing"
                => after.fields[i] = before.fields[i]
          /\ ~FGreater(after.fields[i].water_level,
                       before.fields[i].water_level)
          /\ after.fields[i].health = before.fields[i].health
          /\ after.fields[i].id = before.fields[i].id

\* C15: a next_day leaves every field that is not Growing (Fallow, or Ready
\* to Harvest) with the crop, status, growth_stage, water_level and health
\* it had, and on no field does it raise water_level or change health or
\* id.
C15_AdvanceFrame ==
    [][(Asks(request', "next_day") /\ Known(request', game_saves))
         => C15_AdvanceOf(game_saves[Val(request'.playerName)],
                          game_saves'[Val(request'.playerName)])]_vars

\* a day passed over Amina's farm with field 1 Fallow and field 2 Ready to
\* Harvest: field 2 still has its stage 5 and its water
C15_Witness ==
    /\ request = ActionRequest(Some("Amina"), Some("next_day"), None)
    /\ Succeeded(response)
    /\ game_saves["Amina"].current_day = 29
    /\ game_saves["Amina"].fields[1].status = "Fallow"
    /\ game_saves["Amina"].fields[2].status = "Ready to Harvest"
    /\ game_saves["Amina"].fields[2].growth_stage = 5
    /\ game_saves["Amina"].fields[2].water_level
         = [neg |-> FALSE, hi |-> 13421772, lo |-> 858993460]

IsReady(field) == field.status = "Ready to Harvest"

\* the original C16: a next_day over a field that is Ready to Harvest, with
\* its water_level above 0.4, adds one more stage to growth_stage, and the
\* status stays Ready to Harvest
C16_KeepsAccumulating ==
    [][(Asks(request', "next_day") /\ Known(request', game_saves)
          /\ Succeeded(response'))
         => \A i \in 1..Len(game_saves[Val(request'.playerName)].fields) :
              (/\ IsReady(game_saves[Val(request'.playerName)].fields[i])
               /\ FGreater(game_saves[Val(request'.playerName)].fields[i]
                             .water_level, F_0_4))
                 => /\ game_saves'[Val(request'.playerName)].fields[i]
                         .growth_stage
                       = game_saves[Val(request'.playerName)].fields[i]
                           .growth_stage + 1
                    /\ IsReady(game_saves'[Val(request'.playerName)]
                                 .fields[i])]_vars

\* C16, amended: once a field is Ready to Harvest, a further next_day, also
\* with its water_level above 0.4, leaves its growth_stage as it is, and
\* its status stays Ready to Harvest.
C16_ReadyKeepsStage ==
    [][(Asks(request', "next_day") /\ Known(request', game_saves)
          /\ Succeeded(response'))
         => \A i \in 1..Len(game_saves[Val(request'.playerName)].fields) :
              IsReady(game_saves[Val(request'.playerName)].fields[i])
                 => /\ game_saves'[Val(request'.playerName)].fields[i]
                         .growth_stage
                       = game_saves[Val(request'.playerName)].fields[i]
                           .growth_stage
                    /\ IsReady(game_saves'[Val(request'.playerName)]
                                 .fields[i])]_vars

\* a day passed over Amina's field 2, Ready to Harvest with water 0.8: it
\* is still at stage 5
C16_Witness ==
    /\ request = ActionRequest(Some("Amina"), Some("next_day"), None)
    /\ Succeeded(response)
    /\ game_saves["Amina"].current_day = 27
    /\ IsReady(game_saves["Amina"].fields[2])
    /\ game_saves["Amina"].fields[2].growth_stage = 5
    /\ FGreater(game_saves["Amina"].fields[2].water_level, F_0_4)

\* the request just handled is a successful `action` of player n on the
\* field with this id
C18_Did(action, n, id) ==
    /\ Asks(request', action)
    /\ Succeeded(response')
    /\ request'.playerName = Some(n)
    /\ request'.field_id = Some(id)

\* what C18 allows a step to do to one field of player n
C18_Edge(n, before, after) ==
    \/ after.status = before.status
    \/ /\ before.status = "Fallow" /\ after.status = "Growing"
       /\ C18_Did("plant", n, before.id)
    \/ /\ before.status = "Growing" /\ after.status = "Ready to Harvest"
       /\ Asks(request', "next_day")
       /\ request'.playerName = Some(n)
    \/ /\ before.status = "Ready to Harvest" /\ after.status = "Fallow"
       /\ C18_Did("harvest", n, before.id)

\* C18: a field's status changes only along Fallow -> Growing -> Ready to
\* Harvest -> Fallow: to Growing only from Fallow by a successful plant of
\* that field, to Ready to Harvest only from Growing by a next_day, to
\* Fallow only from Ready to Harvest by a successful harvest of that field;
\* no other step changes a status, water in particular.
C18_StatusCycle ==
    [][\A n \in DOMAIN game_saves :
          \A i \in 1..Len(game_saves[n].fields) :
             C18_Edge(n, game_saves[n].fields[i],
                      game_saves'[n].fields[i])]_vars

\* Amina's field 2, Ready to Harvest, was harvested and then planted again
\* with her last seed
C18_Witness ==
    /\ request = ActionRequest(Some("Amina"), Some("plant"), Some(2))
    /\ Succeeded(response)
    /\ game_saves["Amina"].fields[2].status = "Growing"
    /\ game_saves["Amina"].fields[2].growth_stage = 0
    /\ Harvested(game_saves["Amina"]) = 80
    /\ Seeds(game_saves["Amina"]) = 0
    /\ game_saves["Amina"].fields[1].status = "Growing"

\* the fields of a player that hold a crop: planted and not yet harvested
C19_Standing(player_state) ==
    Cardinality({i \in 1..Len(player_state.fields) :
                    player_state.fields[i].crop # None})

\* seeds and harvest in range, and every seed that left the stock of 10 is
\* in a field or in 10 units of Harvested Maize
C19_Stock(player_state) ==
    /\ Seeds(player_state) \in 0..10
    /\ Harvested(player_state) \in 0..100
    /\ 10 * (10 - Seeds(player_state))
         = Harvested(player_state) + 10 * C19_Standing(player_state)

\* the request just handled is a successful `action` of player n
C19_Did(action, n) ==
    /\ Asks(request', action)
    /\ Succeeded(response')
    /\ request'.playerName = Some(n)

\* what a step does to the stocks: a new player has 10 seeds and no
\* harvest, a successful plant takes one seed, a successful harvest adds
\* 10, and nothing else changes either
C19_StockStep ==
    \A n \in DOMAIN game_saves' :
       IF n \notin DOMAIN game_saves
       THEN Seeds(game_saves'[n]) = 10 /\ Harvested(game_saves'[n]) = 0
       ELSE /\ Seeds(game_saves'[n]) =
                 IF C19_Did("plant", n) THEN Seeds(game_saves[n]) - 1
                 ELSE Seeds(game_saves[n])
            /\ Harvested(game_saves'[n]) =
                 IF C19_Did("harvest", n) THEN Harvested(game_saves[n]) + 10
                 ELSE Harvested(game_saves[n])

\* C19: for every player Maize Seed is between 0 and 10, and is 10 less one
\* for each successful plant: it starts at 10, a successful plant takes
\* one, nothing else changes it.  Harvested Maize is 10 for each successful
\* harvest: it starts at 0, a successful harvest adds 10, nothing else
\* changes it.  So no more than 10 plants succeed and Harvested Maize is at
\* most 100.
C19_Conservation ==
    /\ [](\A n \in DOMAIN game_saves : C19_Stock(game_saves[n]))
    /\ [][C19_StockStep]_vars

\* Amina planted her tenth and last seed in field 1 and then harvested
\* field 2 for the ninth time
C19_Witness ==
    /\ request = ActionRequest(Some("Amina"), Some("harvest"), Some(2))
    /\ Succeeded(response)
    /\ Seeds(game_saves["Amina"]) = 0
    /\ Harvested(game_saves["Amina"]) = 90
    /\ game_saves["Amina"].fields[1].status = "Growing"
    /\ game_saves["Amina"].fields[2].status = "Fallow"

\* growth_stage within the growth time, Ready to Harvest exactly at it
C20_Bounded(field) ==
    /\ field.growth_stage \in 0..CROP_DATA["Maize"].growth_time
    /\ IsReady(field)
         <=> (field.crop # None
              /\ field.growth_stage = CROP_DATA["Maize"].growth_time)
    /\ field.status = "Growing"
         => field.growth_stage < CROP_DATA["Maize"].growth_time

\* a next_day over a Growing field whose water is at or below 0.4 leaves it
\* Growing, at the same stage, with its water still at or below 0.4
C20_DryStays(before, after) ==
    \A i \in 1..Len(before.fields) :
       (IsGrowing(before.fields[i])
          /\ ~FGreater(before.fields[i].water_level, F_0_4))
         => /\ IsGrowing(after.fields[i])
            /\ after.fields[i].growth_stage = before.fields[i].growth_stage
            /\ ~FGreater(after.fields[i].water_level, F_0_4)

\* C20: in every reachable state every field's growth_stage is between 0
\* and the growth time, 5; a field is Ready to Harvest exactly when it has
\* a crop and its growth_stage is 5, and a Growing field is below 5.  A
\* Growing field whose water_level is at or below 0.4 is still Growing, and
\* still that dry, after a next_day, so next_day actions alone never make
\* it Ready to Harvest.
C20_GrowthBound ==
    /\ [](\A n \in DOMAIN game_saves :
             \A i \in 1..Len(game_saves[n].fields) :
                C20_Bounded(game_saves[n].fields[i]))
    /\ [][(Asks(request', "next_day") /\ Known(request', game_saves))
            => C20_DryStays(game_saves[Val(request'.playerName)],
                            game_saves'[Val(request'.playerName)])]_vars

\* two days after day 26 with no water: Amina's field 1 grew to stage 4 on
\* the first and, too dry, stayed there on the second
C20_Witness ==
    /\ request = ActionRequest(Some("Amina"), Some("next_day"), None)
    /\ Succeeded(response)
    /\ game_saves["Amina"].current_day = 28
    /\ game_saves["Amina"].balance = 0
    /\ IsGrowing(game_saves["Amina"].fields[1])
    /\ game_saves["Amina"].fields[1].growth_stage = 4
    /\ ~FGreater(game_saves["Amina"].fields[1].water_level, F_0_4)

\* the requests in flight have all been answered
AllAnswered ==
    DOMAIN inflight # {} /\ \A t \in DOMAIN inflight : inflight[t].pc = "done"

\* the race is of two perform_action requests
TwoActions ==
    /\ DOMAIN inflight = Workers
    /\ \A t \in Workers : inflight[t].body.endpoint = "/api/perform_action"

\* the store after the requests of workers a and b, handled one after the
\* other from the store the race started with
Serial(a, b, rolls_a, rolls_b) ==
    PerformAction(
        PerformAction(history.start, inflight[a].body.playerName,
                      inflight[a].body.action, inflight[a].body.field_id,
                      rolls_a).store,
        inflight[b].body.playerName, inflight[b].body.action,
        inflight[b].body.field_id, rolls_b).store

\* no order of the two requests, whatever prices the days draw, gives
\* this store
NeitherSerialOrder ==
    \A rolls_1 \in PriceRolls, rolls_2 \in PriceRolls :
        /\ game_saves # Serial(1, 2, rolls_1, rolls_2)
        /\ game_saves # Serial(2, 1, rolls_2, rolls_1)

\* the record of the last write-back
LastSaved == history.saves[Len(history.saves)].record

\* C17: two perform_action requests for one player, and no other request,
\* run with their reads and writes interleaved, no lock between them.  When
\* both have been answered, the player's record in the store is the record
\* that the last write-back of the two wrote (and the store is the one they
\* started from if neither wrote back).  A store that neither order of the
\* two requests gives is reached this way: C17_Witness below.
C17_LastWriteBack ==
    (TwoActions /\ AllAnswered) =>
        IF history.saves = <<>> THEN game_saves = history.start
        ELSE game_saves =
               [history.start EXCEPT ![LastSaved.playerName] = LastSaved]

\* the race: both requests were answered with success, the record in the
\* store is the one the later write-back wrote, and neither order of the
\* two requests gives it
C17_Witness ==
    /\ TwoActions
    /\ AllAnswered
    /\ \A t \in Workers : inflight[t].response.status = "success"
    /\ Len(history.saves) = 2
    /\ game_saves[LastSaved.playerName] = LastSaved
    /\ NeitherSerialOrder

====
